---- MODULE Spec2Model ----
(***************************************************************************)
(* Model of the configuration store of config/configuration.py, the Path   *)
(* relations of config/path.py and the path-addressed containers of        *)
(* config/containers.py.                                                   *)
(*                                                                         *)
(* Python objects are modelled by value, except PathDict / PathList        *)
(* instances handed to add_entry: recursive_path_conversion returns those  *)
(* unchanged, so the tree built by to_dict shares them with the stored     *)
(* entries.  They live in `heap` and are addressed by reference nodes.     *)
(***************************************************************************)
EXTENDS Integers, Sequences, FiniteSets, TLC

VARIABLES
    entries_by_path,    \* Configuration.entries_by_path
    active_priority,    \* Configuration.active_priority
    heap,               \* the PathDict / PathList objects handed to add_entry
    last,               \* the last call: its name and the exception it raised
    inputs              \* the pool of calls the caller of this run draws from

vars == <<entries_by_path, active_priority, heap, last, inputs>>

----------------------------------------------------------------------------
(* Bounds of the model.                                                    *)

MaxAdds == 3
MaxHeap == 1
MaxListLen == 5
MaxPathLen == 2

----------------------------------------------------------------------------
(* Keys and paths (config/path.py).                                        *)

StrKey(s) == [kind |-> "str", n |-> 0, s |-> s]
IntKey(i) == [kind |-> "int", n |-> i, s |-> ""]
SliceKey(stop) == [kind |-> "slice", n |-> stop, s |-> ""]

Path(parts) == parts

Min(a, b) == IF a <= b THEN a ELSE b
Max(a, b) == IF a >= b THEN a ELSE b

\* seq[start:stop] of Python for integer bounds of either sign
PySlice(seq, start, stop) ==
    LET n == Len(seq)
        lo == IF start < 0 THEN Max(n + start, 0) ELSE Min(start, n)
        hi == IF stop < 0 THEN Max(n + stop, 0) ELSE Min(stop, n)
    IN IF hi <= lo THEN <<>> ELSE SubSeq(seq, lo + 1, hi)

\* seq[:stop]
PyHead(seq, stop) == PySlice(seq, 0, stop)

\* seq[start:]
PyTail(seq, start) == PySlice(seq, start, Len(seq))

is_prefix_of(self, other) == self = PyHead(other, Len(self))

is_suffix_of(self, other) == self = PyTail(other, -Len(self))

is_compatible_with(self, other) ==
    LET end == Min(Len(self), Len(other))
    IN PyHead(self, end) = PyHead(other, end)

----------------------------------------------------------------------------
(* Values.  A leaf carries a scalar (an int or a one-character str); a     *)
(* dict maps keys to values; a list is a sequence of values.  pc tells a   *)
(* PathDict / PathList (TRUE) from a builtin dict / list (FALSE).  A ref   *)
(* is a PathDict / PathList instance the caller handed to add_entry: its   *)
(* content is heap[id] and everyone holding the ref sees its mutations.    *)

IntVal(i) == IntKey(i)
StrVal(s) == StrKey(s)

Leaf(v) == [k |-> "leaf", v |-> v]
Dict(m, pc) == [k |-> "dict", m |-> m, pc |-> pc]
List(m, pc) == [k |-> "list", m |-> m, pc |-> pc]
Ref(id) == [k |-> "ref", id |-> id]
None == [k |-> "none"]

EmptyDict == Dict(<<>>, FALSE)
EmptyList == List(<<>>, FALSE)

\* the object a value denotes
Deref(value, h) == IF value.k = "ref" THEN h[value.id] ELSE value

\* the value with every reference replaced by the content it points to
RECURSIVE Expand(_, _)
Expand(value, h) ==
    CASE value.k = "ref" -> Expand(h[value.id], h)
      [] value.k = "dict" ->
           Dict([x \in DOMAIN value.m |-> Expand(value.m[x], h)], value.pc)
      [] value.k = "list" ->
           List([i \in DOMAIN value.m |-> Expand(value.m[i], h)], value.pc)
      [] OTHER -> value

----------------------------------------------------------------------------
(* Errors: the exception type and, when track_errors annotated it, the     *)
(* Path that is the last of its args.                                      *)

NoError == [type |-> "none", haspath |-> FALSE, path |-> <<>>]
Raise(type) == [type |-> type, haspath |-> FALSE, path |-> <<>>]
IsError(e) == e.type # "none"

\* an annotation that names the whole of the Path `self`
whole_path(self, e) ==
    IF IsError(e) THEN [e EXCEPT !.haspath = TRUE, !.path = self] ELSE e

\* Path.track_errors of the Path `self`, for an exception e leaving its body
track_errors(self, e) ==
    IF e.type \in {"AttributeError", "IndexError", "KeyError", "TypeError"}
    THEN IF ~e.haspath
         THEN [e EXCEPT !.haspath = TRUE, !.path = PyHead(self, 1)]
         ELSE [e EXCEPT !.path = PyHead(self, 1) \o e.path]
    ELSE e

----------------------------------------------------------------------------
(* Entries (config/configuration.py).                                      *)

LEAF == {"LEAF"}
DICT == {"DICT"}
LIST == {"LIST"}
ANY == LEAF \cup DICT \cup LIST
LIST_OR_DICT == LIST \cup DICT

PRIORITIES == [implicit |-> 1, config |-> 2, internal |-> 3, named_config |-> 4,
               run_arguments |-> 5, commandline |-> 6, forced |-> 7]

get_value_and_type(value, h) ==
    LET obj == Deref(value, h)
    IN IF obj.k = "dict" THEN <<EmptyDict, DICT>>
       ELSE IF obj.k = "list" THEN <<EmptyList, LIST>>
       ELSE <<value, LEAF>>

\* Entry(...) with __post_init__
Entry(path, priority, value, type, implicit, h) ==
    [path |-> path, priority |-> priority, value |-> value,
     type |-> IF type = ANY THEN get_value_and_type(value, h)[2] ELSE type,
     implicit |-> implicit]

\* the priority the entry was stored with, implicit or not
nominal_priority(self) == self.priority

explicit_priority(self) == IF self.implicit THEN 0 ELSE self.priority

\* an expansion whose placeholders are all dicts
implicit_dicts(self) ==
    [i \in 1..(Len(self.path) - 1) |->
        [self EXCEPT !.path = PyHead(self.path, i), !.implicit = TRUE,
                     !.value = EmptyDict, !.type = DICT]]
    \o <<self>>

\* the entries get_implicit_entries yields, in order; isinstance(part, int)
\* holds for a bool too
get_implicit_entries(self) ==
    [i \in 1..(Len(self.path) - 1) |->
        LET prefix == PyHead(self.path, i)
            part == self.path[i + 1]
            implicit_entry == [self EXCEPT !.path = prefix, !.implicit = TRUE]
        IN IF part.kind \in {"int", "bool"}
           THEN [implicit_entry EXCEPT !.value = EmptyDict, !.type = LIST_OR_DICT]
           ELSE IF part.kind = "slice"
           THEN [implicit_entry EXCEPT !.value = EmptyList, !.type = LIST]
           ELSE [implicit_entry EXCEPT !.value = EmptyDict, !.type = DICT]]
    \o <<self>>

\* a merge that keeps the value of self
merge_first(self, other, h) ==
    Entry(self.path, Max(self.priority, other.priority), self.value,
          self.type \cap other.type, self.implicit /\ other.implicit, h)

merge(self, other, h) ==
    LET value == IF explicit_priority(self) >= explicit_priority(other)
                 THEN self.value ELSE other.value
    IN Entry(self.path, Max(self.priority, other.priority), value,
             self.type \cap other.type, self.implicit /\ other.implicit, h)

\* merge with its `assert self.path == other.path`
merge_asserted(self, other, h) ==
    IF self.path # other.path
    THEN [err |-> Raise("AssertionError"), entry |-> None]
    ELSE [err |-> NoError, entry |-> merge(self, other, h)]

----------------------------------------------------------------------------
(* Path-addressed containers (config/containers.py).                       *)

RECURSIVE recursive_path_conversion(_)
recursive_path_conversion(value) ==
    CASE value.k = "ref" -> value
      [] value.k = "dict" /\ value.pc -> value
      [] value.k = "list" /\ value.pc -> value
      [] value.k = "list" ->
           List([i \in DOMAIN value.m |-> recursive_path_conversion(value.m[i])], TRUE)
      [] value.k = "dict" ->
           Dict([x \in DOMAIN value.m |-> recursive_path_conversion(value.m[x])], TRUE)
      [] OTHER -> value

\* the position in a list of n elements that the integer index i denotes
ListIndex(i, n) == IF i < 0 THEN i + n ELSE i

\* some enumeration of a finite set
RECURSIVE SetToSeq(_)
SetToSeq(S) ==
    IF S = {} THEN <<>>
    ELSE LET x == CHOOSE y \in S : TRUE IN <<x>> \o SetToSeq(S \ {x})

\* list(value): what iterating a value yields.  The iteration order of a dict
\* with several keys is an arbitrary fixed one.
Iterate(value, h) ==
    LET obj == Deref(value, h)
    IN CASE obj.k = "list" -> [err |-> NoError, items |-> obj.m]
         [] obj.k = "dict" ->
              LET ks == SetToSeq(DOMAIN obj.m)
              IN [err |-> NoError, items |-> [i \in DOMAIN ks |-> Leaf(ks[i])]]
         [] obj.k = "leaf" /\ obj.v.kind = "str" ->
              [err |-> NoError, items |-> <<obj>>]
         [] OTHER -> [err |-> Raise("TypeError"), items |-> <<>>]

\* dict.__getitem__ / list.__getitem__ of the container self for a plain key
super_getitem(self, key) ==
    IF self.k = "dict"
    THEN IF key.kind = "slice" THEN [err |-> Raise("TypeError"), val |-> None]
         ELSE IF key \in DOMAIN self.m THEN [err |-> NoError, val |-> self.m[key]]
         ELSE [err |-> Raise("KeyError"), val |-> None]
    ELSE CASE key.kind = "int" ->
                LET i == ListIndex(key.n, Len(self.m))
                IN IF 0 <= i /\ i < Len(self.m)
                   THEN [err |-> NoError, val |-> self.m[i + 1]]
                   ELSE [err |-> Raise("IndexError"), val |-> None]
           [] key.kind = "slice" ->
                [err |-> NoError, val |-> List(PyHead(self.m, key.n), FALSE)]
           [] OTHER -> [err |-> Raise("TypeError"), val |-> None]

\* an assignment that drops what the container held
clear_and_setitem(self, key, value, h) ==
    [err |-> NoError,
     obj |-> [self EXCEPT !.m = IF self.k = "dict" THEN key :> value ELSE <<value>>]]

\* dict.__setitem__ / list.__setitem__ of the container self for a plain key
super_setitem(self, key, value, h) ==
    IF self.k = "dict"
    THEN IF key.kind = "slice" THEN [err |-> Raise("TypeError"), obj |-> self]
         ELSE [err |-> NoError,
               obj |-> [self EXCEPT !.m = [x \in DOMAIN self.m \cup {key} |->
                                             IF x = key THEN value ELSE self.m[x]]]]
    ELSE CASE key.kind = "int" ->
                LET i == ListIndex(key.n, Len(self.m))
                IN IF 0 <= i /\ i < Len(self.m)
                   THEN [err |-> NoError, obj |-> [self EXCEPT !.m[i + 1] = value]]
                   ELSE [err |-> Raise("IndexError"), obj |-> self]
           [] key.kind = "slice" ->
                LET it == Iterate(value, h)
                IN IF IsError(it.err) THEN [err |-> it.err, obj |-> self]
                   ELSE [err |-> NoError,
                         obj |-> [self EXCEPT !.m =
                                    it.items \o PyTail(self.m, Len(PyHead(self.m, key.n)))]]
           [] OTHER -> [err |-> Raise("TypeError"), obj |-> self]

\* a PathDict or PathList, as opposed to a leaf or a builtin container
IsPathContainer(node, h) ==
    node.k = "ref" \/ (node.k \in {"dict", "list"} /\ node.pc)

\* an exception e leaving the body of `with key.track_errors()`
Tracked(key, r) == [err |-> track_errors(key, r.err), val |-> r.val]

\* PathMixin.__getitem__(self, key) for a Path key; node is self or a
\* reference to it
RECURSIVE PathMixin_getitem(_, _, _)

\* `return entry[rest] if rest else entry`, got being super().__getitem__(first)
getitem_entry(key, got, h) ==
    IF IsError(got.err) THEN Tracked(key, got)
    ELSE IF PyTail(key, 1) = <<>> THEN got
    ELSE Tracked(key, PathMixin_getitem(got.val, PyTail(key, 1), h))

PathMixin_getitem(node, key, h) ==
    IF ~IsPathContainer(node, h) THEN [err |-> Raise("TypeError"), val |-> None]
    ELSE IF key = <<>> THEN [err |-> NoError, val |-> node]
    ELSE getitem_entry(key, super_getitem(Deref(node, h), key[1]), h)

\* PathMixin.__setitem__(self, key, value) for a Path key; node is self or a
\* reference to it.  Yields the container after the assignment and the heap.
RECURSIVE PathMixin_setitem(_, _, _, _)

\* the assignment is done: self has become obj and the heap hh
Done(node, obj, hh) ==
    IF node.k = "ref"
    THEN [err |-> NoError, node |-> node, heap |-> [hh EXCEPT ![node.id] = obj]]
    ELSE [err |-> NoError, node |-> obj, heap |-> hh]

\* the exception e leaves `with key.track_errors()`: nothing is assigned
Fail(node, key, e, h) == [err |-> track_errors(key, e), node |-> node, heap |-> h]

\* `super().__setitem__(first, value)`, r being its result
setitem_first(node, key, r, h) ==
    IF IsError(r.err) THEN Fail(node, key, r.err, h) ELSE Done(node, r.obj, h)

\* `to_update[rest] = value`, r being its result and got.val being to_update
setitem_rest(node, self, key, got, r, h) ==
    IF IsError(r.err) THEN Fail(node, key, r.err, h)
    ELSE IF got.val.k = "ref" THEN Done(node, self, r.heap)
    ELSE Done(node, super_setitem(self, key[1], r.node, h).obj, r.heap)

\* `to_update = self[first]`, got being its result
setitem_to_update(node, self, key, value, got, h) ==
    IF IsError(got.err) THEN Fail(node, key, got.err, h)
    ELSE setitem_rest(node, self, key, got,
                      PathMixin_setitem(got.val, PyTail(key, 1), value, h), h)

\* the body of __setitem__ for the object self and the converted value
setitem_body(node, self, key, value, h) ==
    IF key = <<>> THEN Fail(node, key, Raise("IndexError"), h)
    ELSE IF PyTail(key, 1) # <<>>
    THEN setitem_to_update(node, self, key, value, super_getitem(self, key[1]), h)
    ELSE setitem_first(node, key, super_setitem(self, key[1], value, h), h)

PathMixin_setitem(node, key, value0, h) ==
    IF ~IsPathContainer(node, h)
    THEN [err |-> Raise("TypeError"), node |-> node, heap |-> h]
    ELSE setitem_body(node, Deref(node, h), key, recursive_path_conversion(value0), h)

----------------------------------------------------------------------------
(* Configuration (config/configuration.py).  entries_by_path is the        *)
(* defaultdict(list): a sequence of [path, entries] in key insertion order. *)

Keys(store) == [i \in DOMAIN store |-> store[i].path]

HasKey(store, path) == \E i \in DOMAIN store : store[i].path = path

\* entries_by_path[path] once the key exists
Entries(store, path) ==
    IF HasKey(store, path)
    THEN store[CHOOSE i \in DOMAIN store : store[i].path = path].entries
    ELSE <<>>

\* entries_by_path[path] of a defaultdict(list): a missing key is inserted
defaultdict_getitem(store, path) ==
    IF HasKey(store, path) THEN store
    ELSE Append(store, [path |-> path, entries |-> <<>>])

\* entries_by_path[entry.path].append(entry)
append(store, entry) ==
    LET s1 == defaultdict_getitem(store, entry.path)
    IN [i \in DOMAIN s1 |->
          IF s1[i].path = entry.path
          THEN [s1[i] EXCEPT !.entries = Append(@, entry)]
          ELSE s1[i]]

\* sorted(seq, key=...): stable, ascending; keys[i] is the key of seq[i]
SortedBy(seq, keys) ==
    LET RECURSIVE go(_)
        go(ks) ==
            IF ks = {} THEN <<>>
            ELSE LET m == CHOOSE x \in ks : \A y \in ks : x <= y
                     at == SelectSeq([i \in DOMAIN seq |-> i], LAMBDA i : keys[i] = m)
                 IN [j \in DOMAIN at |-> seq[at[j]]] \o go(ks \ {m})
    IN go({keys[i] : i \in DOMAIN seq})

\* entries left in the order they were stored
Unordered(e) == 0

Priority(e) == e.priority

RECURSIVE AppendAll(_, _, _)
AppendAll(store, es, i) ==
    IF i > Len(es) THEN store ELSE AppendAll(append(store, es[i]), es, i + 1)

\* an add_entry that stores its entries before it checks the ceiling
add_entry_unchecked(store, active, h, path, value, priority) ==
    LET prio == IF priority = <<>> \/ priority[1] = 0 THEN active ELSE priority[1]
        entry == Entry(path, prio, value, ANY, FALSE, h)
    IN [err |-> IF prio <= active THEN NoError ELSE Raise("AssertionError"),
        store |-> AppendAll(store, get_implicit_entries(entry), 1)]

\* add_entry(path, value, priority); priority is <<>> for None, else <<p>>
add_entry(store, active, h, path, value, priority) ==
    LET prio == IF priority = <<>> \/ priority[1] = 0 THEN active ELSE priority[1]
    IN IF ~(prio <= active)
       THEN [err |-> Raise("AssertionError"), store |-> store]
       ELSE LET entry == Entry(path, prio, value, ANY, FALSE, h)
            IN [err |-> NoError,
                store |-> AppendAll(store, get_implicit_entries(entry), 1)]

RECURSIVE MergeLoop(_, _, _)
MergeLoop(result, sorted_entries, h) ==
    IF sorted_entries # <<>> /\ result.implicit
    THEN MergeLoop(merge(result, sorted_entries[Len(sorted_entries)], h),
                   SubSeq(sorted_entries, 1, Len(sorted_entries) - 1), h)
    ELSE result

\* a return of the merged entry whatever its type
unchecked_result(s1, result) == [err |-> NoError, entry |-> result, store |-> s1]

\* the check of the merged type and the return
checked_result(s1, result) ==
    IF result.type = {}
    THEN [err |-> Raise("TypeError"), entry |-> None, store |-> s1]
    ELSE [err |-> NoError, entry |-> result, store |-> s1]

\* the pop of the highest entry and the merge loop
pop_and_merge(s1, sorted_entries, h) ==
    IF sorted_entries = <<>>
    THEN [err |-> Raise("IndexError"), entry |-> None, store |-> s1]
    ELSE checked_result(s1, MergeLoop(sorted_entries[Len(sorted_entries)],
                                      SubSeq(sorted_entries, 1, Len(sorted_entries) - 1), h))

\* sorted(entries, key=lambda entry: entry.priority) and what follows
sort_and_merge(s1, entries, h) ==
    pop_and_merge(s1, SortedBy(entries, [i \in DOMAIN entries |-> Priority(entries[i])]), h)

\* the filter of self.entries_by_path[path] and what follows
filter_and_merge(s1, path, priority, h) ==
    sort_and_merge(s1, SelectSeq(Entries(s1, path), LAMBDA e : e.priority >= priority), h)

get_entry_for_priority(store, h, path, priority) ==
    filter_and_merge(defaultdict_getitem(store, path), path, priority, h)

\* max(seq, default=0)
MaxOf(seq) ==
    IF seq = <<>> THEN 0
    ELSE CHOOSE x \in {seq[i] : i \in DOMAIN seq} : \A i \in DOMAIN seq : seq[i] <= x

\* no write is ever granted
never_granted(store, path, priority) == [ok |-> FALSE, store |-> store]

RECURSIVE check_write_access_from(_, _, _, _)
check_write_access_from(store, path, priority, i) ==
    IF i >= Len(path) THEN [ok |-> TRUE, store |-> store]
    ELSE LET p == PyHead(path, i)
             s1 == defaultdict_getitem(store, p)
             es == Entries(s1, p)
             explicit_priorities == [j \in DOMAIN es |-> explicit_priority(es[j])]
         IN IF priority < MaxOf(explicit_priorities)
            THEN [ok |-> FALSE, store |-> s1]
            ELSE check_write_access_from(s1, path, priority, i + 1)

check_write_access(store, path, priority) ==
    check_write_access_from(store, path, priority, 1)

\* the for loop of to_dict from the i-th path on, d being the tree so far
RECURSIVE to_dict_loop(_, _, _, _, _, _)

\* after `d[path] = entry.value`, w being its result
loop_after_write(paths, i, priority, d, acc, h, w) ==
    IF IsError(w.err)
    THEN [err |-> w.err, d |-> d, store |-> acc.store, heap |-> h]
    ELSE to_dict_loop(paths, i + 1, priority, w.node, acc.store, w.heap)

\* after `self.check_write_access(path, entry.priority)`, acc being its result
loop_after_access(paths, i, priority, d, got, acc, h) ==
    IF ~acc.ok
    THEN to_dict_loop(paths, i + 1, priority, d, acc.store, h)
    ELSE loop_after_write(paths, i, priority, d, acc, h,
                          PathMixin_setitem(d, paths[i], got.entry.value, h))

\* after `entry = self.get_entry_for_priority(path, priority=priority)`
loop_after_get(paths, i, priority, d, got, h) ==
    IF IsError(got.err)
    THEN [err |-> got.err, d |-> d, store |-> got.store, heap |-> h]
    ELSE loop_after_access(paths, i, priority, d, got,
                           check_write_access(got.store, paths[i], got.entry.priority), h)

to_dict_loop(paths, i, priority, d, store, h) ==
    IF i > Len(paths) THEN [err |-> NoError, d |-> d, store |-> store, heap |-> h]
    ELSE loop_after_get(paths, i, priority, d,
                        get_entry_for_priority(store, h, paths[i], priority), h)

\* sorted(compatible_paths, key=lambda p: len(p)) and the loop over it
to_dict_over(compatible_paths, priority, store, h) ==
    to_dict_loop(SortedBy(compatible_paths,
                          [i \in DOMAIN compatible_paths |-> Len(compatible_paths[i])]),
                 1, priority, Dict(<<>>, TRUE), store, h)

to_dict(store, h, restrict, priority) ==
    to_dict_over(SelectSeq(Keys(store), LAMBDA k : is_compatible_with(restrict, k)),
                 priority, store, h)

\* `[path]` applied to the tree t that to_dict returned, got being its result
tree_item(t, got) ==
    [err |-> got.err, val |-> got.val, store |-> t.store, heap |-> t.heap]

\* self.to_dict(restrict=path)[path], t being what to_dict returned
tree_lookup(t, path) ==
    IF IsError(t.err)
    THEN [err |-> t.err, val |-> None, store |-> t.store, heap |-> t.heap]
    ELSE tree_item(t, PathMixin_getitem(t.d, path, t.heap))

get_value(store, h, path) == tree_lookup(to_dict(store, h, path, 0), path)

----------------------------------------------------------------------------
(* The calls of a run.  A run draws its add_entry calls from one pool and  *)
(* makes each of them at most once.  A value that is a PathDict or         *)
(* PathList (pc) is a fresh object of the caller, allocated in the heap.   *)

A == StrKey("a")
B == StrKey("b")
C == StrKey("c")
Z == StrKey("z")
I1 == IntKey(1)
I3 == IntKey(3)
UpTo2 == SliceKey(2)

L(i) == Leaf(IntVal(i))

\* a priority argument: <<>> is None
Unspecified == <<>>

Contribution(path, value, priority) ==
    [path |-> path, value |-> value, priority |-> priority]

Contributions(paths_values, priorities) ==
    {Contribution(pv[1], pv[2], p) : pv \in paths_values, p \in priorities}

\* nested dicts
DictPool ==
    [calls |-> Contributions({<<<<A>>, Dict(B :> L(1) @@ C :> L(2), FALSE)>>,
                              <<<<A, B>>, Dict(B :> L(3), FALSE)>>,
                              <<<<A, B, C>>, L(7)>>},
                             {Unspecified, <<2>>, <<8>>}),
     queries |-> {<<>>, <<A, B>>, <<A, B, C>>},
     unknown |-> {}]

\* several priorities at one path, with and without a placeholder
PriorityPool ==
    [calls |-> Contributions({<<<<A>>, L(1)>>,
                              <<<<A>>, Dict(B :> L(2), FALSE)>>},
                             {<<2>>, <<6>>})
               \cup Contributions({<<<<A, C>>, L(9)>>}, {<<0>>, <<6>>, <<8>>}),
     queries |-> {<<>>, <<A>>, <<A, C>>},
     unknown |-> {}]

\* a container at a, a list, a PathList or a dict, and writes to its positions
ContainerPool ==
    [calls |-> Contributions({<<<<A>>, List(<<L(1), L(2), L(3)>>, FALSE)>>,
                              <<<<A>>, List(<<L(1), L(2), L(3)>>, TRUE)>>,
                              <<<<A>>, Dict(B :> L(1) @@ C :> L(2), FALSE)>>,
                              <<<<A, I1>>, L(9)>>},
                             {<<2>>})
               \cup Contributions({<<<<A, UpTo2>>, List(<<L(9), L(9), L(9)>>, FALSE)>>,
                                   <<<<A, UpTo2>>, L(9)>>,
                                   <<<<A, I3>>, L(9)>>,
                                   <<<<A, B>>, L(9)>>},
                                  {Unspecified}),
     queries |-> {<<>>, <<A>>, <<A, I1>>},
     unknown |-> {}]

\* the root path, a PathDict, and reads of a path never added
MixedPool ==
    [calls |-> Contributions({<<<<>>, L(9)>>, <<<<B>>, L(9)>>}, {Unspecified})
               \cup Contributions({<<<<A>>, Dict(B :> L(1), TRUE)>>}, {<<2>>})
               \cup Contributions({<<<<A, C>>, L(5)>>}, {Unspecified, <<2>>, <<8>>}),
     queries |-> {<<>>, <<A>>, <<A, C>>},
     unknown |-> {<<Z>>}]

\* a list at a, a write past its end, and a leaf at a[1] under a placeholder
DeepPool ==
    [calls |-> Contributions({<<<<A>>, List(<<L(1), L(2), L(3)>>, FALSE)>>,
                              <<<<A, I1>>, L(5)>>},
                             {<<2>>})
               \cup Contributions({<<<<A, I3>>, L(9)>>, <<<<A, I1, B>>, L(2)>>},
                                  {Unspecified}),
     queries |-> {<<>>, <<A>>, <<A, I1>>},
     unknown |-> {}]

\* contributions of pairwise distinct priorities: a list at a, an index and a
\* slice of it, and a key and an index past its end
OrderPool ==
    [calls |-> {Contribution(<<A>>, List(<<L(1), L(2), L(3)>>, FALSE), <<1>>),
                Contribution(<<A, I1>>, L(5), <<2>>),
                Contribution(<<A, UpTo2>>, List(<<L(9), L(9), L(9)>>, FALSE), <<3>>),
                Contribution(<<A, B>>, L(7), <<4>>),
                Contribution(<<A, I3>>, L(8), <<5>>)},
     queries |-> {<<>>, <<A>>, <<A, I1>>},
     unknown |-> {}]

Pools == [dict |-> DictPool, priority |-> PriorityPool, container |-> ContainerPool,
          mixed |-> MixedPool, deep |-> DeepPool, order |-> OrderPool]

\* the number of add_entry calls a run of the pool makes at most
AddsOf(pool) == IF pool = "deep" THEN MaxAdds + 1 ELSE MaxAdds

Floors == {0, 3}

\* the number of add_entry calls that stored their entry
NumAdds(store) ==
    LET RECURSIVE count(_)
        count(i) ==
            IF i > Len(store) THEN 0
            ELSE Len(SelectSeq(store[i].entries, LAMBDA e : ~e.implicit)) + count(i + 1)
    IN count(1)

\* the longest list among the objects of the heap
RECURSIVE LongestList(_)
LongestList(h) ==
    IF h = <<>> THEN 0
    ELSE LET obj == h[Len(h)]
         IN Max(IF obj.k = "list" THEN Len(obj.m) ELSE 0,
                LongestList(SubSeq(h, 1, Len(h) - 1)))

StoredPaths == {entries_by_path[i].path : i \in DOMAIN entries_by_path}

\* the paths a read may name: the queries of the pool, the stored paths and
\* the paths of the pool that are never added
QueryPaths == Pools[inputs].queries
TouchPaths == StoredPaths \cup Pools[inputs].unknown

Call(op, err) == [op |-> op, err |-> err.type]

Init ==
    /\ entries_by_path = <<>>
    /\ active_priority = PRIORITIES.forced
    /\ heap = <<>>
    /\ last = Call("init", NoError)
    /\ inputs \in DOMAIN Pools

\* a PathDict or PathList the caller builds for the call
IsFresh(c) == c.value.k \in {"dict", "list"} /\ c.value.pc

\* the call c has been made and has stored its entry
Made(c) ==
    \E i \in DOMAIN entries_by_path :
        /\ entries_by_path[i].path = c.path
        /\ \E j \in DOMAIN entries_by_path[i].entries :
              LET e == entries_by_path[i].entries[j]
              IN /\ ~e.implicit
                 /\ e.priority = (IF c.priority \in {Unspecified, <<0>>}
                                  THEN active_priority ELSE c.priority[1])
                 /\ IF IsFresh(c) THEN e.value.k = "ref" ELSE e.value = c.value

\* the state after a call of add_entry with result r, h1 being the heap with
\* the object the caller built
Added(r, h1) ==
    /\ entries_by_path' = r.store
    /\ heap' = IF IsError(r.err) THEN heap ELSE h1
    /\ last' = Call("add_entry", r.err)
    /\ UNCHANGED <<active_priority, inputs>>

\* the heap with the object the caller builds for the call c, and the value
\* the call passes
HeapFor(c) == IF IsFresh(c) THEN Append(heap, c.value) ELSE heap
ValueOf(c) == IF IsFresh(c) THEN Ref(Len(heap) + 1) ELSE c.value

\* cfg.add_entry(c.path, c.value, c.priority)
AddEntryCall(c) ==
    /\ NumAdds(entries_by_path) < AddsOf(inputs)
    /\ ~Made(c)
    /\ IsFresh(c) => Len(heap) < MaxHeap
    /\ Added(add_entry(entries_by_path, active_priority, HeapFor(c), c.path,
                       ValueOf(c), c.priority),
             HeapFor(c))

\* the state after the read op that returned r: the store as the read left it
Touched(op, r, err) ==
    /\ entries_by_path' = r.store
    /\ last' = Call(op, err)
    /\ UNCHANGED <<active_priority, heap, inputs>>

\* the state after the read op that returned r: the store and the heap as the
\* read left them
Materialized(op, r) ==
    /\ LongestList(r.heap) <= MaxListLen
    /\ entries_by_path' = r.store
    /\ heap' = r.heap
    /\ last' = Call(op, r.err)
    /\ UNCHANGED <<active_priority, inputs>>

\* cfg.get_entry_for_priority(path, priority)
GetEntryForPriorityCall(path, priority) ==
    Touched("get_entry_for_priority",
            get_entry_for_priority(entries_by_path, heap, path, priority),
            get_entry_for_priority(entries_by_path, heap, path, priority).err)

\* cfg.check_write_access(path, priority)
CheckWriteAccessCall(path, priority) ==
    Touched("check_write_access", check_write_access(entries_by_path, path, priority),
            NoError)

\* cfg.to_dict(restrict, priority)
ToDictCall(restrict, priority) ==
    Materialized("to_dict", to_dict(entries_by_path, heap, restrict, priority))

\* cfg.get_value(path)
GetValueCall(path) ==
    Materialized("get_value", get_value(entries_by_path, heap, path))

AddEntry == \E c \in Pools[inputs].calls : AddEntryCall(c)

GetEntryForPriority ==
    \E path \in TouchPaths, priority \in Floors :
        GetEntryForPriorityCall(path, priority)

CheckWriteAccess ==
    \E path \in TouchPaths \cup {u \o <<Z>> : u \in Pools[inputs].unknown},
       priority \in {2, 7} :
        CheckWriteAccessCall(path, priority)

ToDict == \E restrict \in QueryPaths, priority \in Floors : ToDictCall(restrict, priority)

GetValue == \E path \in QueryPaths : GetValueCall(path)

Next ==
    \/ AddEntry
    \/ GetEntryForPriority
    \/ CheckWriteAccess
    \/ ToDict
    \/ GetValue

Spec == Init /\ [][Next]_vars

\* the runs of one pool
InitOf(pool) == Init /\ inputs = pool

SpecDict == InitOf("dict") /\ [][Next]_vars

SpecPriority == InitOf("priority") /\ [][Next]_vars

SpecContainer == InitOf("container") /\ [][Next]_vars

SpecMixed == InitOf("mixed") /\ [][Next]_vars

\* the runs of the order pool
SpecOrder == InitOf("order") /\ [][Next]_vars

\* the runs of the pools of nested dicts and leaves
InitKeyed == Init /\ inputs \in {"dict", "priority"}

SpecKeyed == InitKeyed /\ [][Next]_vars

\* the runs of the pools in which the shapes stored at one path conflict
InitShapes == Init /\ inputs \in {"priority", "deep"}

SpecShapes == InitShapes /\ [][Next]_vars

----------------------------------------------------------------------------
(* The relations of Path, called on two paths a run draws at its start.    *)

PathKeys == {A, B, I1}

RECURSIVE PathsUpTo(_)
PathsUpTo(n) ==
    IF n = 0 THEN {<<>>}
    ELSE LET shorter == PathsUpTo(n - 1)
         IN shorter \cup {Append(q, key) : q \in shorter, key \in PathKeys}

Paths == PathsUpTo(MaxPathLen)

\* the call op has returned ret
Returned(op, ret) == [op |-> op, err |-> "none", ret |-> ret]

InitPath ==
    /\ entries_by_path = <<>>
    /\ active_priority = PRIORITIES.forced
    /\ heap = <<>>
    /\ last = Call("init", NoError)
    /\ inputs \in [self : Paths, other : Paths]

\* inputs.self.is_prefix_of(inputs.other)
IsPrefixOf ==
    /\ last' = Returned("is_prefix_of", is_prefix_of(inputs.self, inputs.other))
    /\ UNCHANGED <<entries_by_path, active_priority, heap, inputs>>

\* inputs.self.is_suffix_of(inputs.other)
IsSuffixOf ==
    /\ last' = Returned("is_suffix_of", is_suffix_of(inputs.self, inputs.other))
    /\ UNCHANGED <<entries_by_path, active_priority, heap, inputs>>

\* inputs.self.is_compatible_with(inputs.other)
IsCompatibleWith ==
    /\ last' = Returned("is_compatible_with", is_compatible_with(inputs.self, inputs.other))
    /\ UNCHANGED <<entries_by_path, active_priority, heap, inputs>>

NextPath ==
    \/ IsPrefixOf
    \/ IsSuffixOf
    \/ IsCompatibleWith

SpecPath == InitPath /\ [][NextPath]_vars

----------------------------------------------------------------------------
(* Reads of a path container by a Path, container[key], for a container    *)
(* and a key a run draws at its start.                                     *)

I0 == IntKey(0)

ItemKeys == {A, B, I0, I1, UpTo2}

RECURSIVE KeyPathsUpTo(_)
KeyPathsUpTo(n) ==
    IF n = 0 THEN {<<>>}
    ELSE LET shorter == KeyPathsUpTo(n - 1)
         IN shorter \cup {Append(q, key) : q \in shorter, key \in ItemKeys}

KeyPaths == KeyPathsUpTo(MaxPathLen + 1)

\* PathList([1, [2, 3, [4, 5]]]) and PathDict({"a": {"b": 1}, "b": [1, [2]]})
Containers ==
    {recursive_path_conversion(
         List(<<L(1), List(<<L(2), L(3), List(<<L(4), L(5)>>, FALSE)>>, FALSE)>>, FALSE)),
     recursive_path_conversion(
         Dict(A :> Dict(B :> L(1), FALSE)
              @@ B :> List(<<L(1), List(<<L(2)>>, FALSE)>>, FALSE), FALSE))}

\* the call op has ended with the error e or has returned val
Ended(op, e, val) ==
    [op |-> op, err |-> e.type,
     ret |-> [haspath |-> e.haspath, path |-> e.path,
              val |-> IF IsError(e) THEN None ELSE val]]

InitItem ==
    /\ entries_by_path = <<>>
    /\ active_priority = PRIORITIES.forced
    /\ heap = <<>>
    /\ last = Call("init", NoError)
    /\ inputs \in [self : Containers, key : KeyPaths]

\* what inputs.self[inputs.key] has come to
GotItem(r) ==
    /\ last' = Ended("getitem", r.err, r.val)
    /\ UNCHANGED <<entries_by_path, active_priority, heap, inputs>>

\* inputs.self[inputs.key]
GetItem == GotItem(PathMixin_getitem(inputs.self, inputs.key, heap))

NextItem == GetItem

SpecItem == InitItem /\ [][NextItem]_vars

----------------------------------------------------------------------------
(* The text of a Path (config/path.py): __repr__ with format_part, and     *)
(* from_str with the grammar of path_parser and PathTransformer.  A text   *)
(* is a sequence of characters.                                            *)

BoolKey(b) == [kind |-> "bool", n |-> IF b THEN 1 ELSE 0, s |-> ""]
NoneKey == [kind |-> "none", n |-> 0, s |-> ""]

\* the str values of the model and their characters
Words == {"a", "b", "b c", "a1", "1"}

Spell(word) ==
    CASE word = "a" -> <<"a">>
      [] word = "b" -> <<"b">>
      [] word = "b c" -> <<"b", " ", "c">>
      [] word = "a1" -> <<"a", "1">>
      [] word = "1" -> <<"1">>
      [] OTHER -> <<"?">>

\* the str that has the characters
Word(chars) ==
    IF \E word \in Words : Spell(word) = chars
    THEN CHOOSE word \in Words : Spell(word) = chars
    ELSE "?"

DigitChars == <<"0", "1", "2", "3", "4", "5", "6", "7", "8", "9">>
Digits == {DigitChars[i] : i \in DOMAIN DigitChars}
Letters == {"a", "b", "c", "_"}

\* str(n) of an int
RECURSIVE NatText(_)
NatText(n) ==
    IF n < 10 THEN <<DigitChars[n + 1]>>
    ELSE NatText(n \div 10) \o <<DigitChars[(n % 10) + 1]>>

IntText(n) == IF n < 0 THEN <<"-">> \o NatText(-n) ELSE NatText(n)

\* str.isidentifier()
isidentifier(chars) ==
    /\ chars # <<>>
    /\ chars[1] \in Letters
    /\ \A i \in DOMAIN chars : chars[i] \in Letters \cup Digits

\* str(part).replace(" ", "") of a part that is neither a str nor a slice
PartText(part) ==
    CASE part.kind = "int" -> IntText(part.n)
      [] part.kind = "bool" ->
           IF part.n = 1 THEN <<"T", "r", "u", "e">> ELSE <<"F", "a", "l", "s", "e">>
      [] OTHER -> <<"N", "o", "n", "e">>

format_part(part) ==
    CASE part.kind = "str" ->
           IF isidentifier(Spell(part.s)) THEN <<".">> \o Spell(part.s)
           ELSE <<"[", "'">> \o Spell(part.s) \o <<"'", "]">>
      [] part.kind = "slice" -> <<"[", ":">> \o IntText(part.n) \o <<"]">>
      [] OTHER -> <<"[">> \o PartText(part) \o <<"]">>

\* "".join(...) of the formatted parts
RECURSIVE JoinParts(_)
JoinParts(parts) ==
    IF parts = <<>> THEN <<>> ELSE format_part(Head(parts)) \o JoinParts(Tail(parts))

\* r[1:] if r and r[0] == "." else r
StripDot(r) == IF r # <<>> /\ r[1] = "." THEN Tail(r) ELSE r

repr(self) == StripDot(JoinParts(self))

\* the length of the longest match of /\w+/ at the start of the text
RECURSIVE WordLen(_)
WordLen(text) ==
    IF text # <<>> /\ text[1] \in Letters \cup Digits
    THEN 1 + WordLen(Tail(text)) ELSE 0

\* the position of the first character c in the text from position i on, or 0
RECURSIVE Find(_, _, _)
Find(text, c, i) ==
    IF i > Len(text) THEN 0
    ELSE IF text[i] = c THEN i ELSE Find(text, c, i + 1)

\* DEC_NUMBER: /0|-?[1-9]\d*/
IsDecNumber(text) ==
    \/ text = <<"0">>
    \/ LET digits == IF text # <<>> /\ text[1] = "-" THEN Tail(text) ELSE text
       IN /\ digits # <<>>
          /\ digits[1] \in Digits \ {"0"}
          /\ \A i \in DOMAIN digits : digits[i] \in Digits

\* literal_eval / int of a DEC_NUMBER
RECURSIVE NatValue(_)
NatValue(digits) ==
    IF digits = <<>> THEN 0
    ELSE 10 * NatValue(SubSeq(digits, 1, Len(digits) - 1))
         + (CHOOSE d \in 0..9 : DigitChars[d + 1] = digits[Len(digits)])

IntValue(text) ==
    IF text[1] = "-" THEN -NatValue(Tail(text)) ELSE NatValue(text)

ParseError == Raise("UnexpectedInput")

\* the rule `key` and its transformers, for the text between the brackets
parse_key(text) ==
    CASE IsDecNumber(text) -> [err |-> NoError, key |-> IntKey(IntValue(text))]
      [] text # <<>> /\ text[1] = ":" /\ IsDecNumber(Tail(text)) ->
           [err |-> NoError, key |-> SliceKey(IntValue(Tail(text)))]
      [] text = <<"T", "r", "u", "e">> -> [err |-> NoError, key |-> BoolKey(TRUE)]
      [] text = <<"F", "a", "l", "s", "e">> -> [err |-> NoError, key |-> BoolKey(FALSE)]
      [] text = <<"N", "o", "n", "e">> -> [err |-> NoError, key |-> NoneKey]
      [] Len(text) >= 2 /\ text[1] = "'" /\ text[Len(text)] = "'" ->
           [err |-> NoError, key |-> StrKey(Word(SubSeq(text, 2, Len(text) - 1)))]
      [] text # <<>> /\ \A i \in DOMAIN text : text[i] \notin {"'", ".", "]", " "} ->
           [err |-> NoError, key |-> StrKey(Word(text))]
      [] OTHER -> [err |-> ParseError, key |-> NoneKey]

\* ("." identifier | "[" key "]")* for the rest of the text, after the parts
RECURSIVE parse_segments(_, _)

\* the parts with the key that parse_key has made of a bracket, and the rest
after_key(text, close, parts, k) ==
    IF IsError(k.err) THEN [err |-> k.err, path |-> <<>>]
    ELSE parse_segments(SubSeq(text, close + 1, Len(text)), Append(parts, k.key))

\* the bracket that opens the text: its key ends at the first "]", or for a
\* quoted key at the first "]" after the closing quote
parse_bracket(text, parts, close) ==
    IF close = 0 THEN [err |-> ParseError, path |-> <<>>]
    ELSE after_key(text, close, parts, parse_key(SubSeq(text, 2, close - 1)))

parse_segments(text, parts) ==
    IF text = <<>> THEN [err |-> NoError, path |-> parts]
    ELSE IF text[1] = "."
    THEN IF WordLen(Tail(text)) = 0 THEN [err |-> ParseError, path |-> <<>>]
         ELSE parse_segments(SubSeq(text, WordLen(Tail(text)) + 2, Len(text)),
                             Append(parts, StrKey(Word(SubSeq(text, 2, WordLen(Tail(text)) + 1)))))
    ELSE IF text[1] = "["
    THEN parse_bracket(text, parts,
                       IF Len(text) >= 2 /\ text[2] = "'"
                       THEN Find(text, "]", Find(text, "'", 3) + 1)
                       ELSE Find(text, "]", 2))
    ELSE [err |-> ParseError, path |-> <<>>]

\* path: [identifier ("." identifier | "[" key "]")*]
from_str(str_path) ==
    IF str_path = <<>> THEN [err |-> NoError, path |-> Path(<<>>)]
    ELSE IF WordLen(str_path) = 0 THEN [err |-> ParseError, path |-> <<>>]
    ELSE parse_segments(SubSeq(str_path, WordLen(str_path) + 1, Len(str_path)),
                        <<StrKey(Word(SubSeq(str_path, 1, WordLen(str_path))))>>)

\* the keys of the paths that are printed and parsed
ReprKeys ==
    {A, B, StrKey("b c"), StrKey("a1"), IntKey(10), IntKey(-13), UpTo2,
     BoolKey(FALSE), NoneKey}

RECURSIVE ReprPathsUpTo(_)
ReprPathsUpTo(n) ==
    IF n = 0 THEN {<<>>}
    ELSE LET shorter == ReprPathsUpTo(n - 1)
         IN shorter \cup {Append(q, key) : q \in shorter, key \in ReprKeys}

ReprPaths == ReprPathsUpTo(MaxPathLen)

\* the call op has returned the text or the Path ret
Parsed(op, r) == [op |-> op, err |-> r.err.type, ret |-> r.path]

InitRepr ==
    /\ entries_by_path = <<>>
    /\ active_priority = PRIORITIES.forced
    /\ heap = <<>>
    /\ last = Call("init", NoError)
    /\ inputs \in [self : ReprPaths]

\* repr(inputs.self)
Repr ==
    /\ last.op = "init"
    /\ last' = Returned("repr", repr(inputs.self))
    /\ UNCHANGED <<entries_by_path, active_priority, heap, inputs>>

\* Path.from_str(s) for the text s that repr returned
FromStr ==
    /\ last.op = "repr"
    /\ last' = Parsed("from_str", from_str(last.ret))
    /\ UNCHANGED <<entries_by_path, active_priority, heap, inputs>>

NextRepr ==
    \/ Repr
    \/ FromStr

SpecRepr == InitRepr /\ [][NextRepr]_vars

----------------------------------------------------------------------------
(* The expansion of an entry a run draws at its start.                     *)

EntryKeys == {A, I1, UpTo2, BoolKey(TRUE)}

RECURSIVE EntryPathsUpTo(_)
EntryPathsUpTo(n) ==
    IF n = 0 THEN {<<>>}
    ELSE LET shorter == EntryPathsUpTo(n - 1)
         IN shorter \cup {Append(q, key) : q \in shorter, key \in EntryKeys}

EntryPaths == EntryPathsUpTo(MaxPathLen + 1)

EntryValues == {L(1), Dict(B :> L(1), FALSE), List(<<L(1)>>, FALSE)}

\* the entries add_entry builds: Entry(path=path, value=value, priority=priority)
NewEntries(paths, priorities) ==
    {Entry(path, priority, value, ANY, FALSE, <<>>) :
        path \in paths, priority \in priorities, value \in EntryValues}

InitExpand ==
    /\ entries_by_path = <<>>
    /\ active_priority = PRIORITIES.forced
    /\ heap = <<>>
    /\ last = Call("init", NoError)
    /\ inputs \in [self : NewEntries(EntryPaths, {PRIORITIES.config})]

\* list(inputs.self.get_implicit_entries())
GetImplicitEntries ==
    /\ last' = Returned("get_implicit_entries", get_implicit_entries(inputs.self))
    /\ UNCHANGED <<entries_by_path, active_priority, heap, inputs>>

NextExpand == GetImplicitEntries

SpecExpand == InitExpand /\ [][NextExpand]_vars

----------------------------------------------------------------------------
(* The merge of two entries a run draws at its start: entries as add_entry *)
(* stores them, explicit ones and the placeholders of their expansions.    *)

MergePaths == {<<A>>, <<A, I1>>}

MergePriorities == {PRIORITIES.config, PRIORITIES.commandline}

\* the entries add_entry stores at the paths of MergePaths
MergeEntries ==
    LET news == NewEntries({Append(P, key) : P \in MergePaths, key \in EntryKeys}
                           \cup MergePaths, MergePriorities)
    IN {e \in UNION {{get_implicit_entries(n)[i] : i \in DOMAIN get_implicit_entries(n)} : n \in news} :
           e.path \in MergePaths}

InitMerge ==
    /\ entries_by_path = <<>>
    /\ active_priority = PRIORITIES.forced
    /\ heap = <<>>
    /\ last = Call("init", NoError)
    /\ inputs \in [self : MergeEntries, other : MergeEntries]

\* what inputs.self.merge(inputs.other) has come to
Merged(r) ==
    /\ last' = [op |-> "merge", err |-> r.err.type, ret |-> r.entry]
    /\ UNCHANGED <<entries_by_path, active_priority, heap, inputs>>

\* inputs.self.merge(inputs.other)
Merge == Merged(merge_asserted(inputs.self, inputs.other, heap))

NextMerge == Merge

SpecMerge == InitMerge /\ [][NextMerge]_vars

----------------------------------------------------------------------------
(* Vocabulary of the properties.                                           *)

\* the entries stored at path, and the explicit ones among them
Stored(path) == Entries(entries_by_path, path)
ExplicitAt(path) == SelectSeq(Stored(path), LAMBDA e : ~e.implicit)
ImplicitAt(path) == SelectSeq(Stored(path), LAMBDA e : e.implicit)
Range(seq) == {seq[i] : i \in DOMAIN seq}

\* path p is a proper prefix of path q
StrictlyAbove(p, q) == Len(p) < Len(q) /\ SubSeq(q, 1, Len(p)) = p

\* cfg.to_dict() and cfg.get_entry_for_priority(path) in the current state
FullTree == to_dict(entries_by_path, heap, <<>>, 0)
Resolved(path) == get_entry_for_priority(entries_by_path, heap, path, 0)

\* what tree[path] evaluates to, references followed
Lookup(t, path) ==
    LET got == PathMixin_getitem(t.d, path, t.heap)
    IN [err |-> got.err,
        val |-> IF IsError(got.err) THEN None ELSE Expand(got.val, t.heap)]

\* the value v is found in the value w: equal leaves, lists with the elements of
\* v, dicts with at least the items of v
RECURSIVE Includes(_, _)
Includes(w, v) ==
    CASE v.k = "leaf" -> w = v
      [] v.k = "list" -> /\ w.k = "list"
                         /\ Len(w.m) = Len(v.m)
                         /\ \A i \in DOMAIN v.m : Includes(w.m[i], v.m[i])
      [] v.k = "dict" -> /\ w.k = "dict"
                         /\ \A x \in DOMAIN v.m :
                               x \in DOMAIN w.m /\ Includes(w.m[x], v.m[x])
      [] OTHER -> FALSE

\* the value of the entry e shows at path in the tree to_dict() returns
Appears(e, path) ==
    LET t == FullTree
        at == Lookup(t, path)
    IN /\ ~IsError(t.err)
       /\ ~IsError(at.err)
       /\ Includes(at.val, recursive_path_conversion(Expand(e.value, heap)))

----------------------------------------------------------------------------
(* C1.  Gating: if a path P holds an explicit entry of priority h, then no *)
(* explicit entry of priority lower than h stored at a path strictly       *)
(* beneath P shows its value at that path in the tree to_dict() returns    *)
(* (unless an entry of priority h or more at that path holds the same      *)
(* value), also when the lower entry shares its path with a higher         *)
(* implicit placeholder.                                                   *)

C1_Gating ==
    \A P \in StoredPaths, Q \in StoredPaths :
        StrictlyAbove(P, Q) =>
            \A eh \in Range(ExplicitAt(P)), el \in Range(ExplicitAt(Q)) :
                (/\ el.priority < eh.priority
                 /\ ~\E e \in Range(ExplicitAt(Q)) :
                        e.priority >= eh.priority /\ e.value = el.value)
                => ~Appears(el, Q)

----------------------------------------------------------------------------
(* C2.  Priority monotonicity.                                             *)

\* the explicit entry hi stored at path outranks the explicit entry lo and every
\* other explicit entry stored there
Outranks(path, hi, lo) ==
    /\ hi \in Range(ExplicitAt(path))
    /\ lo \in Range(ExplicitAt(path))
    /\ lo.priority < hi.priority
    /\ \A e \in Range(ExplicitAt(path)) : e # hi => e.priority < hi.priority

\* the placeholders at path that the merge reaches before the entry hi
PlaceholdersOver(path, hi) ==
    {i \in Range(ImplicitAt(path)) : i.priority >= hi.priority}

\* C2 as the specification states it: for a path holding explicit entries of
\* priorities p1 < p2 and none above p2, get_entry_for_priority(path) returns
\* the value of the p2 entry, whatever placeholders the path also holds.
C2_AsStated ==
    \A path \in StoredPaths :
        \A hi \in Range(ExplicitAt(path)), lo \in Range(ExplicitAt(path)) :
            Outranks(path, hi, lo) =>
                /\ ~IsError(Resolved(path).err)
                /\ Resolved(path).entry.value = hi.value

\* C2, amended: for a path holding explicit entries of priorities p1 < p2 and
\* none above p2, whichever was added first, get_entry_for_priority(path)
\* either returns the value of the p2 entry or fails with a TypeError, and it
\* fails only if the path holds a placeholder of priority p2 or more whose
\* shape excludes the shape of the p2 entry's value.
C2_PriorityMonotonicity ==
    \A path \in StoredPaths :
        \A hi \in Range(ExplicitAt(path)), lo \in Range(ExplicitAt(path)) :
            Outranks(path, hi, lo) =>
                LET r == Resolved(path)
                IN /\ r.err.type \in {"none", "TypeError"}
                   /\ r.err.type = "none" => r.entry.value = hi.value
                   /\ r.err.type = "TypeError" =>
                         \E i \in PlaceholdersOver(path, hi) : i.type \cap hi.type = {}

\* get_entry_for_priority has returned, the path a holds a leaf of priority 2
\* added after a dict of priority 6, and a placeholder above both; the dict is
\* what the path resolves to
C2_Witness ==
    /\ last = Call("get_entry_for_priority", NoError)
    /\ \E hi \in Range(ExplicitAt(<<A>>)), lo \in Range(ExplicitAt(<<A>>)) :
          /\ Outranks(<<A>>, hi, lo)
          /\ ExplicitAt(<<A>>) = <<hi, lo>>
          /\ lo.value # hi.value
          /\ PlaceholdersOver(<<A>>, hi) # {}
          /\ ~IsError(Resolved(<<A>>).err)
          /\ Resolved(<<A>>).entry.value = hi.value

----------------------------------------------------------------------------
(* C3.  Partial override keeps the rest.                                   *)

\* the content of an expanded value, whichever classes its containers have
RECURSIVE Content(_)
Content(value) ==
    CASE value.k = "dict" -> Dict([x \in DOMAIN value.m |-> Content(value.m[x])], FALSE)
      [] value.k = "list" -> List([i \in DOMAIN value.m |-> Content(value.m[i])], FALSE)
      [] OTHER -> value

\* the store holds the explicit entry m at path P, the explicit entry c at the
\* child path P + (k), c.priority >= m.priority, the placeholders of the two
\* and nothing else
OverrideCase(P, k, m, c) ==
    /\ P # <<>>
    /\ StoredPaths = {PyHead(P \o <<k>>, i) : i \in 1..(Len(P) + 1)}
    /\ ExplicitAt(P) = <<m>>
    /\ ExplicitAt(P \o <<k>>) = <<c>>
    /\ \A Q \in StoredPaths \ {P, P \o <<k>>} : ExplicitAt(Q) = <<>>
    /\ \A Q \in StoredPaths : Len(Stored(Q)) = (IF Q = P THEN 2 ELSE 1)
    /\ m.type \in {DICT, LIST}
    /\ c.priority >= m.priority

\* the key k names a position the container M has or can get, and v can be put
\* there: any hashable key of a dict, an index within a list, a slice of a
\* list when v is a list
Fits(M, k, v) ==
    IF M.k = "dict" THEN k.kind # "slice"
    ELSE CASE k.kind = "int" -> -Len(M.m) <= k.n /\ k.n < Len(M.m)
           [] k.kind = "slice" -> v.k = "list"
           [] OTHER -> FALSE

\* the key k names no position of the container M, or v cannot be put there: a
\* slice of a dict, an index outside a list, a str key of a list, a slice of
\* a list when v is a number
Misfits(M, k, v) ==
    IF M.k = "dict" THEN k.kind = "slice"
    ELSE CASE k.kind = "int" -> ~(-Len(M.m) <= k.n /\ k.n < Len(M.m))
           [] k.kind = "slice" -> v.k = "leaf" /\ v.v.kind = "int"
           [] OTHER -> TRUE

\* R is M with only position k replaced or added by v: every other key or
\* element of M is in R as it was
IsOverride(R, M, k, v) ==
    /\ R.k = M.k
    /\ IF M.k = "dict"
       THEN /\ DOMAIN R.m = DOMAIN M.m \cup {k}
            /\ R.m[k] = v
            /\ \A x \in DOMAIN M.m \ {k} : R.m[x] = M.m[x]
       ELSE IF k.kind = "int"
       THEN LET pos == (IF k.n < 0 THEN k.n + Len(M.m) ELSE k.n) + 1
            IN /\ Len(R.m) = Len(M.m)
               /\ R.m[pos] = v
               /\ \A i \in DOMAIN M.m \ {pos} : R.m[i] = M.m[i]
       ELSE LET cut == IF k.n < Len(M.m) THEN k.n ELSE Len(M.m)
            IN /\ v.k = "list"
               /\ Len(R.m) = Len(v.m) + Len(M.m) - cut
               /\ \A i \in DOMAIN v.m : R.m[i] = v.m[i]
               /\ \A i \in (cut + 1)..Len(M.m) : R.m[Len(v.m) + i - cut] = M.m[i]

C3_MisfitCase ==
    \E Q \in StoredPaths : \E m \in Range(ExplicitAt(<<A>>)), c \in Range(ExplicitAt(Q)) :
        /\ Len(Q) = 2
        /\ OverrideCase(<<A>>, Q[2], m, c)
        /\ Misfits(Content(Expand(m.value, heap)), Q[2], Content(Expand(c.value, heap)))

----------------------------------------------------------------------------
(* C4.  Append-only store.                                                 *)

\* the entries stored at path in the store, with the content of their values
EntriesAs(store, h, path) ==
    LET es == Entries(store, path)
    IN [i \in DOMAIN es |-> [es[i] EXCEPT !.value = Expand(@, h)]]

\* the list new is the list old with entries appended at its end
Extends(new, old) ==
    Len(new) >= Len(old) /\ SubSeq(new, 1, Len(old)) = old

\* the step leaves the list of every path as it was or appends to it
OnlyAppends ==
    \A path \in StoredPaths :
        Extends(EntriesAs(entries_by_path', heap', path),
                EntriesAs(entries_by_path, heap, path))

\* the step appends one entry at each non-empty prefix of c.path, implicit at
\* the proper prefixes and explicit at c.path, and nothing anywhere else
AppendsPrefixes(c) ==
    \A path \in StoredPaths \cup {entries_by_path'[i].path : i \in DOMAIN entries_by_path'} :
        LET old == EntriesAs(entries_by_path, heap, path)
            new == EntriesAs(entries_by_path', heap', path)
        IN IF path # <<>> /\ is_prefix_of(path, c.path)
           THEN /\ Len(new) = Len(old) + 1
                /\ Extends(new, old)
                /\ new[Len(new)].implicit = (path # c.path)
           ELSE new = old

\* C4 as the specification states it: the store starts empty; every step
\* leaves each path's entry list as it was or appends at its end, so that no
\* stored entry is removed, reordered or changed; and an add_entry call that
\* stores appends exactly one entry at each non-empty prefix of its path.
C4_AppendOnly ==
    /\ entries_by_path = <<>>
    /\ [][/\ OnlyAppends
          /\ \A c \in Pools[inputs].calls :
                (AddEntryCall(c) /\ last'.err = "none") => AppendsPrefixes(c)]_vars

----------------------------------------------------------------------------
(* C5.  Reads are pure.                                                    *)

\* what a caller sees of a to_dict call: the error type, or the tree returned
Outcome(t) ==
    IF IsError(t.err) THEN [err |-> t.err.type, tree |-> None]
    ELSE [err |-> "none", tree |-> Content(Expand(t.d, t.heap))]

\* a call of one of the four reading operations
Read == GetEntryForPriority \/ CheckWriteAccess \/ ToDict \/ GetValue

\* C5 as the specification states it: get_entry_for_priority,
\* check_write_access, to_dict and get_value leave the stored paths and every
\* path's entry list unchanged for every argument, also for a path never
\* added and when the call ends in an error, and so leave the outcome of a
\* later to_dict() unchanged.
C5_ReadsArePure ==
    [][Read =>
         /\ entries_by_path' = entries_by_path
         /\ Outcome(to_dict(entries_by_path', heap', <<>>, 0)) = Outcome(FullTree)]_vars

----------------------------------------------------------------------------
(* C6.  Idempotence.                                                       *)

\* what a caller sees of a get_value call: the error type, or the value
ValueOutcome(g) ==
    IF IsError(g.err) THEN [err |-> g.err.type, val |-> None]
    ELSE [err |-> "none", val |-> Content(Expand(g.val, g.heap))]

\* C6 as the specification states it: to_dict, for any query path and
\* priority floor, and get_value, for any path, called twice with no add_entry
\* in between yield the same outcome both times, the same tree or value or
\* the same error: the outcome of the call in the state it leaves is the
\* outcome it had.
C6_Idempotence ==
    [][/\ \A restrict \in QueryPaths, priority \in Floors :
             ToDictCall(restrict, priority) =>
                 Outcome(to_dict(entries_by_path', heap', restrict, priority))
                   = Outcome(to_dict(entries_by_path, heap, restrict, priority))
       /\ \A path \in QueryPaths :
             GetValueCall(path) =>
                 ValueOutcome(get_value(entries_by_path', heap', path))
                   = ValueOutcome(get_value(entries_by_path, heap, path))]_vars

----------------------------------------------------------------------------
(* C7.  Compatibility of to_dict with get_entry_for_priority.              *)

\* an explicit leaf value was added at path
LeafAddedAt(path) == \E e \in Range(ExplicitAt(path)) : e.type = LEAF

\* every key of the path is a str, so that the path names a position in
\* nested dicts that no other path names
StrKeys(path) == \A i \in DOMAIN path : path[i].kind = "str"

\* a path strictly above path holds an explicit entry of priority above p
Outranked(path, p) ==
    \E Q \in StoredPaths :
        /\ StrictlyAbove(Q, path)
        /\ \E e \in Range(ExplicitAt(Q)) : e.priority > p

\* C7 as the specification states it: for every path at which an explicit
\* leaf value was added, the value found at that path in the tree to_dict()
\* returns is the value of the entry get_entry_for_priority resolves for it.
C7_AsStated ==
    \A path \in StoredPaths :
        LeafAddedAt(path) =>
            /\ ~IsError(Resolved(path).err)
            /\ ~IsError(Lookup(FullTree, path).err)
            /\ Lookup(FullTree, path).val = Expand(Resolved(path).entry.value, heap)

\* C7, amended: for every path of str keys at which an explicit leaf value was
\* added, if to_dict() returns a tree then get_entry_for_priority resolves
\* the path, and if it resolves it to a leaf entry that no explicit entry of
\* higher priority at a path strictly above outranks, the value found at the
\* path in the tree is the value of the resolved entry.
C7_Compatibility ==
    \A path \in StoredPaths :
        (LeafAddedAt(path) /\ StrKeys(path) /\ ~IsError(FullTree.err)) =>
            LET r == Resolved(path)
            IN /\ ~IsError(r.err)
               /\ (r.entry.type = LEAF /\ ~Outranked(path, r.entry.priority)) =>
                     /\ ~IsError(Lookup(FullTree, path).err)
                     /\ Lookup(FullTree, path).val = Expand(r.entry.value, heap)

\* to_dict has returned a tree with the leaf 7 at a.b.c, over the value that
\* the dict stored at a of lower priority has at b
C7_Witness ==
    /\ last = Call("to_dict", NoError)
    /\ LeafAddedAt(<<A, B, C>>)
    /\ ExplicitAt(<<A>>) # <<>>
    /\ ~Outranked(<<A, B, C>>, Resolved(<<A, B, C>>).entry.priority)
    /\ ~IsError(FullTree.err)
    /\ Lookup(FullTree, <<A, B, C>>).val = L(7)

----------------------------------------------------------------------------
(* C8.  Implicit non-domination.                                           *)

\* the explicit entries at path that pass the priority floor, and those of
\* them that no other one outranks
ExplicitFrom(path, floor) ==
    {e \in Range(ExplicitAt(path)) : e.priority >= floor}

TopExplicit(path, floor) ==
    {e \in ExplicitFrom(path, floor) :
        \A o \in ExplicitFrom(path, floor) : o.priority <= e.priority}

\* the path holds an explicit entry that passes the floor and a placeholder
\* of higher priority
PlaceholderAbove(path, floor) ==
    \E e \in TopExplicit(path, floor), i \in Range(ImplicitAt(path)) :
        i.priority > e.priority

\* C8 as the specification states it: an implicit entry's explicit_priority
\* is 0; when a path holds an explicit entry at or above the priority floor
\* and placeholders of higher priority, get_entry_for_priority returns the
\* explicit entry's value with implicit = false; and while an explicit entry
\* at or above the floor exists, it never returns a placeholder.
C8_AsStated ==
    \A path \in StoredPaths :
        /\ \A i \in Range(ImplicitAt(path)) : explicit_priority(i) = 0
        /\ \A floor \in Floors :
              LET r == get_entry_for_priority(entries_by_path, heap, path, floor)
              IN /\ PlaceholderAbove(path, floor) =>
                       /\ ~IsError(r.err)
                       /\ ~r.entry.implicit
                       /\ \E e \in TopExplicit(path, floor) : r.entry.value = e.value
                 /\ ExplicitFrom(path, floor) # {} =>
                       ~IsError(r.err) /\ ~r.entry.implicit

\* C8, amended: an implicit entry's explicit_priority is 0, and when a path
\* holds an explicit entry at or above the priority floor, whatever
\* placeholders it also holds, get_entry_for_priority either returns the
\* value of the highest such explicit entry with implicit = false, or fails
\* with a TypeError, which it does only if a placeholder of that priority or
\* more has a shape that excludes the shape of that entry's value; it never
\* returns a placeholder.
C8_ImplicitNonDomination ==
    \A path \in StoredPaths :
        /\ \A i \in Range(ImplicitAt(path)) : explicit_priority(i) = 0
        /\ \A floor \in Floors :
              ExplicitFrom(path, floor) # {} =>
                  LET r == get_entry_for_priority(entries_by_path, heap, path, floor)
                  IN /\ r.err.type \in {"none", "TypeError"}
                     /\ r.err.type = "none" =>
                           /\ ~r.entry.implicit
                           /\ \E e \in TopExplicit(path, floor) : r.entry.value = e.value
                     /\ r.err.type = "TypeError" =>
                           \E e \in TopExplicit(path, floor), i \in Range(ImplicitAt(path)) :
                               i.priority >= e.priority /\ i.type \cap e.type = {}

\* get_entry_for_priority has returned; the path a holds one explicit entry, a
\* dict of priority 2, under a placeholder of priority 7, and resolves to the
\* dict, not to the placeholder's empty one
C8_Witness ==
    /\ last = Call("get_entry_for_priority", NoError)
    /\ Len(ExplicitAt(<<A>>)) = 1
    /\ ExplicitAt(<<A>>)[1].priority = 2
    /\ PlaceholderAbove(<<A>>, 0)
    /\ \E i \in Range(ImplicitAt(<<A>>)) : i.priority = 7 /\ i.value = EmptyDict
    /\ ~IsError(Resolved(<<A>>).err)
    /\ ~Resolved(<<A>>).entry.implicit
    /\ Resolved(<<A>>).entry.value = Dict(B :> L(2), FALSE)

----------------------------------------------------------------------------
(* C9.  The relations of the root path.                                    *)

\* C9 as the specification states it: for the root path, of length 0, and
\* every Path P, empty or not, Path().is_prefix_of(P), Path().is_suffix_of(P)
\* and Path().is_compatible_with(P) are all true.
C9_RootRelations ==
    (/\ last.op \in {"is_prefix_of", "is_suffix_of", "is_compatible_with"}
     /\ inputs.self = <<>>)
    => last.ret

----------------------------------------------------------------------------
(* C10.  Priority ceiling.                                                 *)

\* the call c names a priority above the ceiling
AboveCeiling(c) == c.priority # Unspecified /\ c.priority[1] > active_priority

\* C10: add_entry with a priority greater than active_priority fails with an
\* AssertionError and leaves the entry store exactly as it was: neither the
\* entry nor any of its implicit entries is stored.
C10_PriorityCeiling ==
    [][\A c \in Pools[inputs].calls :
          (AddEntryCall(c) /\ AboveCeiling(c)) =>
              /\ last' = Call("add_entry", Raise("AssertionError"))
              /\ entries_by_path' = entries_by_path
              /\ heap' = heap]_vars

\* add_entry has failed on a store that holds entries
C10_Witness ==
    /\ last = Call("add_entry", Raise("AssertionError"))
    /\ entries_by_path # <<>>

----------------------------------------------------------------------------
(* C11.  Unresolved type.                                                  *)

\* the positions among the explicit entries of path of those that pass the
\* floor and that no other one outranks
TopPositions(path, floor) ==
    {j \in DOMAIN ExplicitAt(path) : ExplicitAt(path)[j] \in TopExplicit(path, floor)}

\* the highest explicit entry of path that passes the floor: of several with
\* that priority, the one stored last
HighestExplicit(path, floor) ==
    {ExplicitAt(path)[j] :
        j \in {k \in TopPositions(path, floor) :
                 \A l \in TopPositions(path, floor) : l <= k}}

\* the entries the merge of path covers at the floor: the highest explicit
\* entry that passes the floor and the placeholders above it, or every
\* placeholder that passes the floor when no explicit entry does
MergedAt(path, floor) ==
    HighestExplicit(path, floor)
    \cup {i \in Range(ImplicitAt(path)) :
            /\ i.priority >= floor
            /\ \A e \in TopExplicit(path, floor) : i.priority > e.priority}

\* the flags every entry of the set has
SharedFlags(S) == {f \in ANY : \A e \in S : f \in e.type}

\* the shapes of the merged entries share no flag
ShapesConflict(path, floor) ==
    MergedAt(path, floor) # {} /\ SharedFlags(MergedAt(path, floor)) = {}

\* a path that to_dict reaches no later than path fails on its own: it has no
\* entry at the floor, or it is a position inside another value
FailsBefore(path, floor) ==
    \E Q \in StoredPaths \ {path} :
        /\ Len(Q) <= Len(path)
        /\ \/ \A e \in Range(Stored(Q)) : e.priority < floor
           \/ Len(Q) >= 2

\* C11 as the specification states it: get_entry_for_priority never returns
\* an entry of empty shape; whenever the shapes of the entries it merged share
\* no flag it fails with the TypeError, and to_dict fails with the TypeError
\* too.
C11_AsStated ==
    \A path \in StoredPaths, floor \in Floors :
        LET r == get_entry_for_priority(entries_by_path, heap, path, floor)
        IN /\ ~IsError(r.err) => r.entry.type # {}
           /\ ShapesConflict(path, floor) =>
                 /\ r.err.type = "TypeError"
                 /\ to_dict(entries_by_path, heap, <<>>, floor).err.type = "TypeError"

\* C11, amended: get_entry_for_priority never returns an entry of empty
\* shape; whenever the shapes of the entries it merged share no flag it fails
\* with the TypeError, and to_dict returns no tree: it fails, with the
\* TypeError unless a path it reaches no later fails first with its own error.
C11_UnresolvedType ==
    \A path \in StoredPaths, floor \in Floors :
        LET r == get_entry_for_priority(entries_by_path, heap, path, floor)
            t == to_dict(entries_by_path, heap, <<>>, floor)
        IN /\ ~IsError(r.err) => r.entry.type # {}
           /\ ShapesConflict(path, floor) =>
                 /\ r.err.type = "TypeError"
                 /\ IsError(t.err)
                 /\ t.err.type # "TypeError" => FailsBefore(path, floor)

\* get_entry_for_priority has failed with the TypeError on a store that holds
\* an explicit leaf at a under a dict placeholder of higher priority
C11_Witness ==
    /\ last = Call("get_entry_for_priority", Raise("TypeError"))
    /\ ShapesConflict(<<A>>, 0)
    /\ \E e \in TopExplicit(<<A>>, 0), i \in Range(ImplicitAt(<<A>>)) :
          e.type = LEAF /\ i.type = DICT /\ i.priority > e.priority

----------------------------------------------------------------------------
(* C12.  Error annotation.                                                 *)

\* the value has the key: a key of a dict, an index within a list, any slice
\* of a list
HasItem(value, key) ==
    CASE value.k = "dict" -> key.kind # "slice" /\ key \in DOMAIN value.m
      [] value.k = "list" ->
           \/ key.kind = "slice"
           \/ key.kind = "int" /\ -Len(value.m) <= key.n /\ key.n < Len(value.m)
      [] OTHER -> FALSE

\* value[key] for a key the value has
ItemOf(value, key) ==
    CASE value.k = "dict" -> value.m[key]
      [] key.kind = "slice" -> List(PyHead(value.m, key.n), FALSE)
      [] OTHER -> value.m[(IF key.n < 0 THEN key.n + Len(value.m) ELSE key.n) + 1]

\* the value is a PathDict or a PathList: it takes a Path as key
TakesPaths(value) == value.k \in {"dict", "list"} /\ value.pc

\* the number of segments of the path P that can be followed from the value
RECURSIVE Reached(_, _)
Reached(value, P) ==
    IF P = <<>> \/ ~TakesPaths(value) \/ ~HasItem(value, P[1]) THEN 0
    ELSE 1 + Reached(ItemOf(value, P[1]), Tail(P))

\* the value the first n segments of P lead to
RECURSIVE ValueAt(_, _, _)
ValueAt(value, P, n) ==
    IF n = 0 THEN value ELSE ValueAt(ItemOf(value, P[1]), Tail(P), n - 1)

\* the read of container[P] fails: some segment of P cannot be followed
ReadFails(container, P) == Reached(container, P) < Len(P)

\* the shortest prefix of P at which the access fails: the segments that were
\* reached and the failing one
ShortestFailingPrefix(container, P) == PyHead(P, Reached(container, P) + 1)

\* the value that the failing segment was applied to handles Paths
FailsInContainer(container, P) ==
    TakesPaths(ValueAt(container, P, Reached(container, P)))

\* C12 as the specification states it: when reading container[P] for a Path
\* P fails, the error's last argument is the Path that is the shortest prefix
\* of P at which the access fails, the segments reached plus the failing one.
C12_AsStated ==
    (last.op = "getitem" /\ ReadFails(inputs.self, inputs.key)) =>
        /\ last.err \in {"IndexError", "KeyError", "TypeError", "AttributeError"}
        /\ last.ret.haspath
        /\ last.ret.path = ShortestFailingPrefix(inputs.self, inputs.key)

\* C12, amended: when reading container[P] for a Path P fails, the error's
\* last argument is a Path: the shortest prefix of P at which the access
\* fails (the segments reached plus the failing one) if the value the failing
\* segment is applied to is a PathDict or PathList, and the segments reached alone
\* if that value is a leaf or the plain list that a slice yields; it is never
\* the whole of P unless
\* the last segment is the one that failed.
C12_ErrorAnnotation ==
    (last.op = "getitem" /\ ReadFails(inputs.self, inputs.key)) =>
        /\ last.err \in {"IndexError", "KeyError", "TypeError", "AttributeError"}
        /\ last.ret.haspath
        /\ last.ret.path =
              (IF FailsInContainer(inputs.self, inputs.key)
               THEN ShortestFailingPrefix(inputs.self, inputs.key)
               ELSE PyHead(inputs.key, Reached(inputs.self, inputs.key)))
        /\ last.ret.path = inputs.key =>
              Reached(inputs.self, inputs.key) = Len(inputs.key) - 1

\* the read of {"a": {"b": 1}, "b": [1, [2]]} at the path a.a.b has failed at
\* its second segment, which the dict at a does not have
C12_Witness ==
    /\ last.op = "getitem"
    /\ last.err = "KeyError"
    /\ inputs.self.k = "dict"
    /\ inputs.key = <<A, A, B>>
    /\ Reached(inputs.self, inputs.key) = 1
    /\ last.ret.path = <<A, A>>

----------------------------------------------------------------------------
(* C13.  Round trip of the text of a Path.                                 *)

\* C13 as the specification states it: for every Path p built from
\* representable keys, also one whose first key is not an identifier,
\* Path.from_str(repr(p)) == p, and repr(Path.from_str(s)) == s for the
\* canonical text s = repr(p).
C13_RoundTrip ==
    last.op = "from_str" =>
        /\ last.err = "none"
        /\ last.ret = inputs.self
        /\ repr(last.ret) = repr(inputs.self)

----------------------------------------------------------------------------
(* C14.  Implicit expansion.                                               *)

\* the key is an integer: an int, or a bool, which is an int too
IsInteger(key) == key.kind \in {"int", "bool"}

\* the placeholder e stands for a container that takes the key
PlaceholderFor(e, key) ==
    CASE IsInteger(key) -> e.type = LIST_OR_DICT /\ e.value = Dict(<<>>, FALSE)
      [] key.kind = "slice" -> e.type = LIST /\ e.value = List(<<>>, FALSE)
      [] OTHER -> e.type = DICT /\ e.value = Dict(<<>>, FALSE)

\* C14: for an entry at path (k1..kn) with priority p, get_implicit_entries
\* yields, in order of increasing prefix length, exactly one implicit entry
\* for each prefix (k1..ki), i in 1..n-1, each with priority p and implicit =
\* true, with shape LIST_OR_DICT and value {} if k(i+1) is an integer, shape
\* LIST and value [] if k(i+1) is a slice, shape DICT and value {} otherwise;
\* the original entry is yielded last and nothing is yielded for the root.
C14_ImplicitExpansion ==
    last.op = "get_implicit_entries" =>
        LET es == last.ret
            P == inputs.self.path
        IN /\ Len(es) = Max(Len(P), 1)
           /\ es[Len(es)] = inputs.self
           /\ \A i \in 1..(Len(es) - 1) :
                 /\ es[i].path = SubSeq(P, 1, i)
                 /\ es[i].path # <<>>
                 /\ es[i].priority = inputs.self.priority
                 /\ es[i].implicit
                 /\ PlaceholderFor(es[i], P[i + 1])

\* the expansion of an entry at a path of three keys, the second an integer
\* and the third a slice, has been yielded: three entries
C14_Witness ==
    /\ last.op = "get_implicit_entries"
    /\ Len(inputs.self.path) = 3
    /\ inputs.self.path[2] = I1
    /\ inputs.self.path[3] = UpTo2
    /\ Len(last.ret) = 3
    /\ last.ret[1].type = LIST_OR_DICT
    /\ last.ret[2].type = LIST

----------------------------------------------------------------------------
(* C15.  Merge.                                                            *)

\* the priority of an entry as far as it is explicit
ExplicitPriorityOf(e) == IF e.implicit THEN 0 ELSE e.priority

\* C15: for two entries a, b with equal paths, a.merge(b) is a new entry with
\* the same path whose value is a.value if a.explicit_priority >=
\* b.explicit_priority and b.value otherwise, whose priority is the maximum of
\* the two priorities, whose shape is the intersection of both shapes and
\* whose implicit flag is a.implicit AND b.implicit; a and b are unchanged,
\* and a merge of entries with different paths is rejected.
C15_Merge ==
    [][Merge =>
         LET a == inputs.self
             b == inputs.other
         IN /\ inputs' = inputs
            /\ IF a.path = b.path
               THEN /\ last'.err = "none"
                    /\ last'.ret.path = a.path
                    /\ last'.ret.value =
                          (IF ExplicitPriorityOf(a) >= ExplicitPriorityOf(b)
                           THEN a.value ELSE b.value)
                    /\ last'.ret.priority = Max(a.priority, b.priority)
                    /\ last'.ret.type = {f \in ANY : f \in a.type /\ f \in b.type}
                    /\ last'.ret.implicit = (a.implicit /\ b.implicit)
               ELSE last'.err = "AssertionError"]_vars

\* a placeholder of priority 6 has been merged with an explicit list of
\* priority 2 at the same path: the result has the list, priority 6, and is
\* explicit
C15_Witness ==
    /\ last.op = "merge"
    /\ last.err = "none"
    /\ inputs.self.implicit
    /\ inputs.self.priority = 6
    /\ ~inputs.other.implicit
    /\ inputs.other.priority = 2
    /\ inputs.other.type = LIST
    /\ last.ret.value = inputs.other.value
    /\ last.ret.priority = 6
    /\ ~last.ret.implicit

----------------------------------------------------------------------------
(* C16.  Ancestors before descendants.                                     *)

\* to_dict with the floor assigns the value resolved for the path: the path
\* resolves and passes the write-access gating
Granted(path, floor) ==
    LET r == get_entry_for_priority(entries_by_path, heap, path, floor)
    IN /\ ~IsError(r.err)
       /\ check_write_access(r.store, path, r.entry.priority).ok

\* to_dict with the floor resolves the path and leaves its value out: the
\* write-access gating denies it
Denied(path, floor) ==
    LET r == get_entry_for_priority(entries_by_path, heap, path, floor)
    IN /\ ~IsError(r.err)
       /\ ~check_write_access(r.store, path, r.entry.priority).ok

\* the non-empty proper prefixes of the path
ProperPrefixes(path) == {SubSeq(path, 1, i) : i \in 1..(Len(path) - 1)}

\* the tree t holds a dict or a list at the path
ContainerAt(t, path) ==
    /\ ~IsError(Lookup(t, path).err)
    /\ Lookup(t, path).val.k \in {"dict", "list"}

\* the materialization t stopped at a write below a path that holds no
\* container: the path is missing in the tree, or holds a leaf
ParentFailure(t) ==
    /\ IsError(t.err)
    /\ t.err.haspath
    /\ \/ t.err.type = "KeyError"
       \/ /\ ~IsError(Lookup(t, t.err.path).err)
          /\ Lookup(t, t.err.path).val.k = "leaf"

\* what every materialization keeps: a path that is granted has no prefix
\* that is denied, and the tree returned holds a container at every non-empty
\* proper prefix of a path of length >= 2 that was assigned
AncestorsFirst(restrict, floor, t) ==
    \A Q \in StoredPaths :
        (Len(Q) >= 2 /\ is_compatible_with(restrict, Q) /\ Granted(Q, floor)) =>
            \A P \in ProperPrefixes(Q) :
                /\ ~Denied(P, floor)
                /\ ~IsError(t.err) => ContainerAt(t, P)

\* C16 as the specification states it: during to_dict, whenever a value is
\* assigned at a path of length >= 2, a container has been assigned at every
\* non-empty proper prefix; a path that passes the gating has no stored
\* prefix that was denied; a descendant write never fails for a missing or
\* non-container parent.
C16_AncestorsBeforeDescendants ==
    \A restrict \in QueryPaths, floor \in Floors :
        /\ AncestorsFirst(restrict, floor, to_dict(entries_by_path, heap, restrict, floor))
        /\ ~ParentFailure(to_dict(entries_by_path, heap, restrict, floor))

----------------------------------------------------------------------------
(* C17.  The priority add_entry stores.                                    *)

\* the entries the step appends to the store
Appended ==
    UNION {{Entries(entries_by_path', path)[j] :
               j \in (Len(Stored(path)) + 1)..Len(Entries(entries_by_path', path))} :
           path \in {entries_by_path'[i].path : i \in DOMAIN entries_by_path'}}

\* C17 as the specification states it: add_entry uses the active ceiling as
\* the priority if and only if no priority is specified; for every specified
\* priority p <= active_priority, 0 included, every entry the call appends,
\* implicit or explicit, carries priority exactly p.
C17_StoredPriority ==
    [][\A c \in Pools[inputs].calls :
          (AddEntryCall(c) /\ ~AboveCeiling(c)) =>
              /\ Appended # {}
              /\ \A e \in Appended :
                    e.priority = (IF c.priority = Unspecified
                                  THEN active_priority ELSE c.priority[1])]_vars

----------------------------------------------------------------------------
(* C18.  Restriction does not change the answer.                           *)

\* the path is present in the tree to_dict() returns
PresentInFullTree(path) ==
    ~IsError(FullTree.err) /\ ~IsError(Lookup(FullTree, path).err)

\* C18 as the specification states it: for any store and any path P present
\* in the full tree, get_value(P), which materializes only the stored paths
\* compatible with P, equals the value found at P in the unrestricted
\* to_dict(); stored paths that are not compatible with P never influence it.
C18_Restriction ==
    \A P \in QueryPaths :
        PresentInFullTree(P) =>
            /\ ~IsError(get_value(entries_by_path, heap, P).err)
            /\ ValueOutcome(get_value(entries_by_path, heap, P)).val
                 = Content(Lookup(FullTree, P).val)

----------------------------------------------------------------------------
(* C19.  Order independence.                                               *)

\* the add_entry calls of the pool that the run has made
MadeCalls == {c \in Pools[inputs].calls : Made(c)}

\* the orders in which the calls of S can be made
Orders(S) ==
    {o \in [1 .. Cardinality(S) -> S] :
        \A i, j \in 1 .. Cardinality(S) : o[i] = o[j] => i = j}

\* the store of a new Configuration after the add_entry calls of calls, made
\* in their order from the i-th on
RECURSIVE AddedInOrder(_, _, _)
AddedInOrder(store, calls, i) ==
    IF i > Len(calls) THEN store
    ELSE AddedInOrder(add_entry(store, PRIORITIES.forced, <<>>, calls[i].path,
                                calls[i].value, calls[i].priority).store,
                      calls, i + 1)

\* C19 as the specification states it: for any set of contributions with
\* pairwise distinct priorities, every order of the add_entry calls yields the
\* same to_dict() outcome, the same tree or the same error, also when an
\* integer index and a slice address overlapping positions of one list.
C19_OrderIndependence ==
    inputs = "order" =>
        \A o \in Orders(MadeCalls) :
            Outcome(to_dict(AddedInOrder(<<>>, o, 1), <<>>, <<>>, 0)) = Outcome(FullTree)

----------------------------------------------------------------------------
(* C20.  Value agrees with shape.                                          *)

\* the shape a value has: a mapping, a list or a non-container
KindOf(value) ==
    IF Deref(value, heap).k = "dict" THEN "DICT"
    ELSE IF Deref(value, heap).k = "list" THEN "LIST"
    ELSE "LEAF"

\* C20 as the specification states it: every entry returned by
\* get_entry_for_priority has a value of the kind its shape allows, a mapping
\* when the shape is DICT, a list when it is LIST, a non-container when it is
\* LEAF, also when the result is merged from several implicit placeholders
\* created by integer-key and slice-key writes at different priorities.
C20_ValueAgreesWithShape ==
    \A path \in StoredPaths, floor \in Floors :
        LET r == get_entry_for_priority(entries_by_path, heap, path, floor)
        IN ~IsError(r.err) => KindOf(r.entry.value) \in r.entry.type

----------------------------------------------------------------------------
(* C21.  Priority floor.                                                   *)

\* the entries of es with priority >= floor
FromFloor(es, floor) == SelectSeq(es, LAMBDA e : e.priority >= floor)

\* the store without the entries below the floor, and without the paths
\* that have no entry left
AtOrAbove(store, floor) ==
    SelectSeq([i \in DOMAIN store |->
                  [path |-> store[i].path,
                   entries |-> FromFloor(store[i].entries, floor)]],
              LAMBDA kv : kv.entries # <<>>)

\* C21 as the specification states it: for every priority floor f,
\* to_dict(restrict, priority=f) builds its tree only from entries with
\* priority >= f, and a stored compatible path that has no entry with
\* priority >= f is left out of the tree rather than making the call fail:
\* the call has the outcome it has on the store that holds only the entries
\* from the floor on.
C21_PriorityFloor ==
    \A restrict \in QueryPaths, floor \in Floors :
        Outcome(to_dict(entries_by_path, heap, restrict, floor))
            = Outcome(to_dict(AtOrAbove(entries_by_path, floor), heap, restrict, 0))

====
